---- MODULE Spec2Model ----
(***************************************************************************)
(* Model of infipod: schema loading (engine.create_table_schemas run over  *)
(* util.map_as_completed), the pool facade and its transaction scope, and  *)
(* the row accessor EnhancedRow.                                           *)
(***************************************************************************)
EXTENDS Integers, Sequences, FiniteSets, TLC

VARIABLES
    strict,        \* spawn_isopods_from_pool(strict_schema_loading=...)
    inputs,        \* spawn_isopods_from_pool(tables=...): declared tables, in order
    server,        \* the server's catalogue: relname -> relation
    serverTypes,   \* typnames present in pg_type
    phase,         \* position of the caller in spawn_isopods_from_pool
    task,          \* per declared table: position of its backfill_table_data task
    results,       \* map_as_completed: the deque of task results
    excs,          \* exceptions raised by tasks of the task group so far
    cancelled,     \* the task group's cancel scope has been cancelled
    raised,        \* the exception spawn_isopods_from_pool raised, or NoExc
    pool,          \* the IsopodPool returned, or NoPool
    addConverter,  \* typname -> number of pool.add_converter calls for it
    call,          \* the last EnhancedRow lookup: operation, row, key, outcome
    db,            \* rows committed to example_table
    connOwner,     \* driver connection -> scope holding it, or 0 when free
    connTx,        \* driver connection -> its transaction: open, pending writes
    fetched,       \* what the last IsopodPool.fetch outside a scope returned
    scope,         \* per checkout_isopod scope: its position, connection, writes
    columnObj,     \* per Column object: whether constructed, its owner, its name
    setName        \* the last Column.__set_name__ call, its outcome, the count

vars == <<strict, inputs, server, serverTypes, phase, task, results, excs,
          cancelled, raised, pool, addConverter, call, db, connOwner, connTx, fetched, scope,
          columnObj, setName>>

loadVars == <<phase, task, results, excs, cancelled, raised, pool, addConverter>>
declVars == <<columnObj, setName>>
cfgVars == <<strict, inputs, server, serverTypes, declVars>>
txVars == <<db, connOwner, connTx, fetched, scope>>

----------------------------------------------------------------------------
(* Bounds *)

MaxRowLen == 2
MaxScopes == 2
MaxWrites == 1
MaxConns == 1
MaxColumnObjs == 2
MaxSetNames == 3

----------------------------------------------------------------------------
(* Declared schema: the TableSchema subclasses handed to the engine *)

Tables == {"ExampleTable", "OtherTable"}

\* _TableMeta.__init__: table_name = pascal_to_snake(name)
table_name(table) ==
    IF table = "ExampleTable" THEN "example_table" ELSE "other_table"

\* Column(type, name=...) bound to its class by __set_name__
Column(owner, name, type) == [owner |-> owner, name |-> name, type |-> type]

\* EnumType(enum, postgresql_name="example_enum") is a DatabaseTypeWithConverter;
\* Int4Type is not.
Int4Type == [postgresql_name |-> "INT4", with_converter |-> FALSE]
EnumType == [postgresql_name |-> "example_enum", with_converter |-> TRUE]

\* The class bodies, in declaration order
class_body(table) ==
    IF table = "ExampleTable"
    THEN << Column("ExampleTable", "id", Int4Type),
            Column("ExampleTable", "field", EnumType) >>
    ELSE << Column("OtherTable", "kind", EnumType) >>

\* _TableMeta.__init__: all_columns = {i.name: i for i in klass_body.values()}
all_columns(table) ==
    [n \in {class_body(table)[i].name : i \in 1..Len(class_body(table))} |->
        CHOOSE c \in {class_body(table)[i] : i \in 1..Len(class_body(table))} :
            c.name = n]

Columns == UNION {{all_columns(t)[n] : n \in DOMAIN all_columns(t)} : t \in Tables}

----------------------------------------------------------------------------
(* The server's catalogue *)

RelNames == {table_name(t) : t \in Tables}

\* pg_class.oid of the relation of that name
OidOf(relname) == IF relname = "example_table" THEN 16384 ELSE 16390

\* Names a relation's user columns may carry server-side
ServerColNames(relname) ==
    IF relname = "example_table" THEN {"id", "field", "missing"} ELSE {"kind"}

InjSeqs(S) ==
    UNION {{s \in [1..n -> S] : \A i, j \in 1..n : s[i] = s[j] => i = j} :
            n \in 0..Cardinality(S)}

\* relkind: "r" ordinary table, "v" view, "absent" no pg_class row at all.
\* cols[i] is the attname of the column with attnum i.
Relations(relname) ==
    {[relkind |-> "absent", cols |-> <<>>], [relkind |-> "v", cols |-> <<>>]}
    \cup {[relkind |-> "r", cols |-> s] : s \in InjSeqs(ServerColNames(relname))}

TypeNames == {"example_enum"}
TypeOid(typname) == 16400

Range(s) == {s[i] : i \in 1..Len(s)}

----------------------------------------------------------------------------
(* Exceptions and results *)

\* an exception: its class, its message with the names formatted into it (in
\* subject; in names those joined from a set, whose order is not fixed), and
\* for an ExceptionGroup the exceptions it holds
NoExc == [cls |-> "none", what |-> "", subject |-> <<>>, names |-> {}, group |-> <<>>]
Exc(cls, what, subject) ==
    [cls |-> cls, what |-> what, subject |-> subject, names |-> {}, group |-> <<>>]
SchemaLoadFailedError(what, subject) == Exc("SchemaLoadFailedError", what, subject)
ExceptionGroup(es) ==
    [cls |-> "ExceptionGroup", what |-> "", subject |-> <<>>, names |-> {},
     group |-> es]

NoPool == [exists |-> FALSE, schemas |-> <<>>]

----------------------------------------------------------------------------
(* engine.create_table_schemas.backfill_table_data *)

EmptyMapping == [c \in {} |-> 0]

\* table(table_oid=oid): TableSchema.__init__
TableSchema(table, oid) ==
    [is_none |-> FALSE, table |-> table, oid |-> oid, column_mapping |-> EmptyMapping]

\* the None a lenient task returns for a table it did not find
NoSchema ==
    [is_none |-> TRUE, table |-> "", oid |-> 0, column_mapping |-> EmptyMapping]

\* "SELECT oid FROM pg_class WHERE relname = $1 AND relkind = 'r'": the rows
pg_class_rows(relname) ==
    IF server[relname].relkind = "r" THEN <<OidOf(relname)>> ELSE <<>>

\* "SELECT * FROM pg_attribute ... WHERE pg_class.oid = $1 AND attnum > 0
\*  ORDER BY attnum": the rows
pg_attribute_rows(relname) ==
    [i \in 1..Len(server[relname].cols) |->
        [attname |-> server[relname].cols[i], attnum |-> i]]

\* "SELECT oid FROM pg_type WHERE typname = $1": the rows
pg_type_rows(typname) ==
    IF typname \in serverTypes THEN <<TypeOid(typname)>> ELSE <<>>

\* mutant: the MissingRowError handler never raises
missing_table_never_raises(strict_) == FALSE

\* except MissingRowError: raise under strict, warn and return None otherwise
missing_table_raises(strict_) == strict_

\* a catalogue row whose attname no declared Column carries: raise under strict
missing_column_raises(strict_) == strict_

\* mutant: the difference of declared and mapped columns is never computed
unmapped_check_skipped(strict_, table, mapping) == {}

\* the set difference of declared and mapped columns is computed under strict only
unmapped_check(strict_, table, mapping) ==
    IF strict_
    THEN {all_columns(table)[n] : n \in DOMAIN all_columns(table)} \ DOMAIN mapping
    ELSE {}

\* schema.column_mapping[column] = attnum
dict_set(mapping, key, value) ==
    [k \in DOMAIN mapping \cup {key} |-> IF k = key THEN value ELSE mapping[k]]

\* the "for row in column_rows" loop, from row i on
RECURSIVE map_columns(_, _, _, _, _)
map_columns(table, column_rows, i, mapping, strict_) ==
    IF i > Len(column_rows)
    THEN [exc |-> NoExc, mapping |-> mapping]
    ELSE LET column_name == column_rows[i].attname
         IN IF column_name \notin DOMAIN all_columns(table)
            THEN IF missing_column_raises(strict_)
                 THEN [exc |-> SchemaLoadFailedError("Missing column in schema",
                                          <<table_name(table), column_name>>),
                       mapping |-> mapping]
                 ELSE map_columns(table, column_rows, i + 1, mapping, strict_)
            ELSE map_columns(table, column_rows, i + 1,
                             dict_set(mapping, all_columns(table)[column_name],
                                      column_rows[i].attnum),
                             strict_)

\* backfill_table_data from the answer of the pg_attribute query to its end
backfill_columns(table, oid, column_rows, strict_) ==
    LET looped == map_columns(table, column_rows, 1, EmptyMapping, strict_)
        schema == [TableSchema(table, oid) EXCEPT !.column_mapping = looped.mapping]
        diff == unmapped_check(strict_, table, looped.mapping)
    IN IF looped.exc # NoExc
       THEN [exc |-> looped.exc, schema |-> NoSchema]
       ELSE IF diff # {}
            THEN [exc |-> [SchemaLoadFailedError("Unmapped columns", <<>>)
                              EXCEPT !.names = {i.name : i \in diff}],
                  schema |-> NoSchema]
            ELSE [exc |-> NoExc, schema |-> schema]

----------------------------------------------------------------------------
(* util.map_as_completed: a task group with one task per input *)

Terminal == {"done", "failed", "cancelled"}

\* mutant: an append that loses the entries stored by other tasks
appendleft_overwrites(deque, x) == <<x>>

\* results.appendleft(await fn())
appendleft(deque, x) == <<x>> \o deque

\* a task raising: the task group records the exception and cancels its scope
TaskFails(t, e) ==
    /\ task' = [task EXCEPT ![t] = "failed"]
    /\ excs' = Append(excs, e)
    /\ cancelled' = TRUE
    /\ UNCHANGED results

TaskReturns(t, value) ==
    /\ task' = [task EXCEPT ![t] = "done"]
    /\ results' = appendleft(results, value)
    /\ UNCHANGED <<excs, cancelled>>

\* a task reaching a checkpoint (an await on the driver): inside a cancelled
\* scope the checkpoint raises Cancelled, which the group absorbs
TaskAwaits(t, at) ==
    /\ task' = [task EXCEPT ![t] = IF cancelled THEN "cancelled" ELSE at]
    /\ UNCHANGED <<results, excs, cancelled>>

\* async with anyio.create_task_group(): for thing in inputs: start_soon(...)
StartSoon ==
    /\ phase = "call"
    /\ phase' = "group"
    /\ task' = [t \in Tables |-> IF t \in Range(inputs) THEN "spawned" ELSE "none"]
    /\ UNCHANGED <<results, excs, cancelled, raised, pool, addConverter>>
    /\ UNCHANGED <<cfgVars, call, txVars>>

\* backfill_table_data up to "await conn.fetch_one(pg_class ...)"
TaskStart(t) ==
    /\ phase = "group"
    /\ task[t] = "spawned"
    /\ TaskAwaits(t, "await_oid")
    /\ UNCHANGED <<phase, raised, pool, addConverter, cfgVars, call, txVars>>

\* the pg_class answer arrives: MissingRowError handling, then
\* "await conn.fetch(pg_attribute ...)"
TaskOidResult(t) ==
    /\ phase = "group"
    /\ task[t] = "await_oid"
    /\ IF pg_class_rows(table_name(t)) = <<>>
       THEN IF missing_table_raises(strict)
            THEN TaskFails(t, SchemaLoadFailedError("Unknown table", <<table_name(t)>>))
            ELSE TaskReturns(t, NoSchema)
       ELSE TaskAwaits(t, "await_cols")
    /\ UNCHANGED <<phase, raised, pool, addConverter, cfgVars, call, txVars>>

\* the pg_attribute answer arrives: the column loop and the strict difference
TaskColsResult(t) ==
    /\ phase = "group"
    /\ task[t] = "await_cols"
    /\ LET oid == pg_class_rows(table_name(t))[1]
           r == backfill_columns(t, oid, pg_attribute_rows(table_name(t)), strict)
       IN IF r.exc # NoExc THEN TaskFails(t, r.exc) ELSE TaskReturns(t, r.schema)
    /\ UNCHANGED <<phase, raised, pool, addConverter, cfgVars, call, txVars>>

\* the cancelled scope interrupts a task suspended on the driver
TaskCancel(t) ==
    /\ phase = "group"
    /\ cancelled
    /\ task[t] \in {"await_oid", "await_cols"}
    /\ task' = [task EXCEPT ![t] = "cancelled"]
    /\ UNCHANGED <<results, excs, cancelled>>
    /\ UNCHANGED <<phase, raised, pool, addConverter, cfgVars, call, txVars>>

\* mutant: the group raises with the first task exception only
group_error_first_only(es) == ExceptionGroup(<<es[1]>>)

\* the exception the task group raises on exit, given the tasks' exceptions
group_error(es) == ExceptionGroup(es)

\* leaving "async with": every task has ended; raise the group of their
\* exceptions, or return the deque
GroupExit ==
    /\ phase = "group"
    /\ \A t \in Range(inputs) : task[t] \in Terminal
    /\ IF excs # <<>>
       THEN /\ phase' = "raised"
            /\ raised' = group_error(excs)
       ELSE /\ phase' = "mapped"
            /\ UNCHANGED raised
    /\ UNCHANGED <<task, results, excs, cancelled, pool, addConverter>>
    /\ UNCHANGED <<cfgVars, call, txVars>>

----------------------------------------------------------------------------
(* engine.create_table_schemas after map_as_completed, and                 *)
(* spawn_isopods_from_pool after create_table_schemas                      *)

\* schemas = [i for i in schemas if i is not None]
not_none(schemas) == SelectSeq(schemas, LAMBDA it : ~it.is_none)

\* the (schema, column) pairs of "for schema in schemas: for column in
\* schema.all_columns.values()", in iteration order
RECURSIVE schema_columns(_)
schema_columns(schemas) ==
    IF schemas = <<>> THEN <<>>
    ELSE LET body == class_body(Head(schemas).table)
             \* all_columns is a dict keyed by i.name: a later Column of the
             \* same name replaces the earlier one
             kept == SelectSeq(body, LAMBDA c : all_columns(c.owner)[c.name] = c)
         IN kept \o schema_columns(Tail(schemas))

\* mutant: a type missing from pg_type raises under either policy
missing_type_always_raises(strict_) == TRUE

\* except MissingRowError in the converter loop: raise under strict
missing_type_raises(strict_) == strict_

\* schema_type.create_converter(oid): the Converter, which serves the type of
\* that name and oid
create_converter(schema_type, oid) ==
    [typname |-> schema_type.postgresql_name, oid |-> oid]

\* mutant: one dict entry for each column instead of one for each type name
converter_key_per_column(column) == <<column.owner, column.name>>

\* the key of converters[schema_type.postgresql_name] = ...
converter_key(column) == column.type.postgresql_name

\* the converter loop from column i on; converters is the dict of the
\* Converters made so far
RECURSIVE load_converters(_, _, _, _)
load_converters(columns, i, converters, strict_) ==
    IF i > Len(columns)
    THEN [exc |-> NoExc, converters |-> converters]
    ELSE LET schema_type == columns[i].type
         IN IF ~schema_type.with_converter
            THEN load_converters(columns, i + 1, converters, strict_)
            ELSE IF pg_type_rows(schema_type.postgresql_name) = <<>>
                 THEN IF missing_type_raises(strict_)
                      THEN [exc |-> SchemaLoadFailedError("Can't find OID for type",
                                                   <<schema_type.postgresql_name>>),
                            converters |-> converters]
                      ELSE load_converters(columns, i + 1, converters, strict_)
                 ELSE load_converters(columns, i + 1,
                          dict_set(converters, converter_key(columns[i]),
                                   create_converter(schema_type,
                                       pg_type_rows(schema_type.postgresql_name)[1])),
                          strict_)

\* for converter in converters: pool.add_converter(converter), counted for
\* the type name n
add_converter_calls(converters, n) ==
    Cardinality({k \in DOMAIN converters : converters[k].typname = n})

\* {type(it): it for it in schemas}
schema_mapping(schemas) ==
    [t \in {schemas[i].table : i \in 1..Len(schemas)} |->
        LET last == CHOOSE i \in 1..Len(schemas) :
                        /\ schemas[i].table = t
                        /\ \A j \in 1..Len(schemas) : schemas[j].table = t => j <= i
        IN schemas[last]]

\* IsopodPool(pool, schemas)
IsopodPool(schemas) == [exists |-> TRUE, schemas |-> schemas]

\* map_as_completed has returned: the converter loop, pool.add_converter for
\* each converter, and the IsopodPool
LoadConverters ==
    /\ phase = "mapped"
    /\ LET schemas == not_none(results)
           loaded == load_converters(schema_columns(schemas), 1,
                                     EmptyMapping, strict)
       IN IF loaded.exc # NoExc
          THEN /\ phase' = "raised"
               /\ raised' = loaded.exc
               /\ UNCHANGED <<pool, addConverter>>
          ELSE /\ phase' = "returned"
               /\ addConverter' =
                     [n \in TypeNames |->
                        addConverter[n] + add_converter_calls(loaded.converters, n)]
               /\ pool' = IsopodPool(schema_mapping(schemas))
               /\ UNCHANGED raised
    /\ UNCHANGED <<task, results, excs, cancelled, cfgVars, call, txVars>>

----------------------------------------------------------------------------
(* engine.EnhancedRow *)

\* a value of a DataRow: Python None for SQL NULL, or a non-NULL value
None == [null |-> TRUE, v |-> 0]
Value(v) == [null |-> FALSE, v |-> v]

NoColumn == Column("", "", Int4Type)
IntKey(i) == [is_int |-> TRUE, index |-> i, column |-> NoColumn]
ColumnKey(c) == [is_int |-> FALSE, index |-> 0, column |-> c]

KeyError(what, subject) == Exc("KeyError", what, subject)
IndexError == Exc("IndexError", "list index out of range", <<>>)

Returns(value) == [exc |-> NoExc, value |-> value]
Raises(e) == [exc |-> e, value |-> None]

\* self._row.data[key] for an int key: a Python list index
list_index(data, key) ==
    IF 0 <= key /\ key < Len(data) THEN Returns(data[key + 1])
    ELSE IF key < 0 /\ -Len(data) <= key THEN Returns(data[Len(data) + key + 1])
    ELSE Raises(IndexError)

\* mutant: the scan compares the ordinal only
desc_matches_ordinal_only(desc, table_instance, column_idx) ==
    desc.column_index = column_idx

\* the condition of the scan of self._row.description.columns
desc_matches(desc, table_instance, column_idx) ==
    desc.table_oid = table_instance.oid /\ desc.column_index = column_idx

\* mutant: the entry found is returned without the None test
found_entry_unchecked(row, idx, key) == Returns(row.data[idx])

\* what the scan does with the entry it found
found_entry(row, idx, key) ==
    IF row.data[idx].null
    THEN Raises(KeyError("has a NULL value", <<key.name>>))
    ELSE Returns(row.data[idx])

\* EnhancedRow.__getitem__
getitem(schemas, row, key) ==
    IF key.is_int THEN list_index(row.data, key.index)
    ELSE LET table_type == key.column.owner
         IN IF table_type \notin DOMAIN schemas
            THEN Raises(KeyError("<table>", <<table_type>>))
            ELSE LET table_instance == schemas[table_type]
                 IN IF key.column \notin DOMAIN table_instance.column_mapping
                    THEN Raises(KeyError("<column>", <<key.column.owner, key.column.name>>))
                    ELSE LET column_idx == table_instance.column_mapping[key.column]
                             hits == {idx \in 1..Len(row.description) :
                                        desc_matches(row.description[idx],
                                                     table_instance, column_idx)}
                         IN IF hits = {}
                            THEN Raises(KeyError("No such column in this row",
                                                 <<key.column.name>>))
                            ELSE found_entry(row,
                                     CHOOSE idx \in hits : \A j \in hits : idx <= j,
                                     key.column)

\* mutant: get catches LookupError, the base of KeyError and IndexError
get_catches_lookup_error(e) == e.cls \in {"KeyError", "IndexError"}

\* mutant: get catches nothing
get_catches_nothing(e) == FALSE

\* mutant: get catches only the two KeyErrors __getitem__ raises itself
get_catches_own_raises(e) ==
    e.cls = "KeyError" /\ e.what \in {"has a NULL value", "No such column in this row"}

\* the exception classes "except KeyError" catches
get_catches(e) == e.cls = "KeyError"

\* EnhancedRow.get
get(schemas, row, key) ==
    LET r == getitem(schemas, row, key)
    IN IF r.exc # NoExc /\ get_catches(r.exc) THEN Returns(None) ELSE r

----------------------------------------------------------------------------
(* Rows a query may produce, and the keys of a lookup *)

\* the (table OID, attnum) pairs a row description may carry
Descs ==
    UNION {[table_oid : {OidOf(n)},
            column_index : 1..Cardinality(ServerColNames(n))] : n \in RelNames}

\* the non-NULL value at position idx is told apart from every other one
Rows ==
    UNION {{[description |-> d,
             data |-> [idx \in 1..n |-> IF nulls[idx] THEN None ELSE Value(idx)]] :
                d \in [1..n -> Descs], nulls \in [1..n -> BOOLEAN]} :
           n \in 0..MaxRowLen}

Keys == {IntKey(i) : i \in -(MaxRowLen + 1)..(MaxRowLen + 1)}
        \cup {ColumnKey(c) : c \in Columns}

NoCall == [op |-> "none", row |-> [description |-> <<>>, data |-> <<>>],
           key |-> IntKey(0), out |-> Returns(None)]

\* row[key] on a row fetched through the pool. A lookup changes nothing but
\* call, so one lookup per behaviour reaches every state repeated lookups reach.
GetItemCall ==
    /\ phase = "returned"
    /\ call = NoCall
    /\ \E row \in Rows, key \in Keys :
          call' = [op |-> "getitem", row |-> row, key |-> key,
                   out |-> getitem(pool.schemas, row, key)]
    /\ UNCHANGED <<loadVars, cfgVars, txVars>>

\* row.get(key) on a row fetched through the pool
GetCall ==
    /\ phase = "returned"
    /\ call = NoCall
    /\ \E row \in Rows, key \in Keys :
          call' = [op |-> "get", row |-> row, key |-> key,
                   out |-> get(pool.schemas, row, key)]
    /\ UNCHANGED <<loadVars, cfgVars, txVars>>

----------------------------------------------------------------------------
(* engine.IsopodPool.checkout_isopod over the driver's pooled connections *)

Conns == 1..MaxConns
Scopes == 1..MaxScopes

\* Isopod(connection=conn, pool=self)
Isopod(conn, engine) == [connection |-> conn, pool |-> engine]
NoIsopod == Isopod(0, NoPool)

NoTx == [open |-> FALSE, writes |-> {}]

\* the driver's checkout_in_transaction leaving its scope: ROLLBACK when the
\* scope is left by an exception, COMMIT otherwise
transaction_exit(committed, pending, exc) ==
    IF exc THEN committed ELSE committed \cup pending

\* mutant: the exception of the body does not reach the exit of "async with"
exit_never_receives_exception(body_raised) == FALSE

\* "async with ... as conn: yield Isopod(...)" inside @asynccontextmanager: an
\* exception of the caller's body is thrown in at the yield and leaves the
\* "async with" block, whose exit receives it
exit_receives_exception(body_raised) == body_raised

\* entering "async with engine.checkout_isopod() as isopod"
Checkout(s) ==
    /\ phase = "returned"
    /\ scope[s].pc = "out"
    /\ \E c \in Conns :
          /\ connOwner[c] = 0
          /\ connOwner' = [connOwner EXCEPT ![c] = s]
          /\ connTx' = [connTx EXCEPT ![c] = [open |-> TRUE, writes |-> {}]]
          /\ scope' = [scope EXCEPT ![s] =
                          [pc |-> "body", isopod |-> Isopod(c, pool), writes |-> {}]]
    /\ UNCHANGED <<db, fetched, loadVars, cfgVars, call>>

\* Isopod.execute("INSERT INTO example_table ...") in the body of the scope
IsopodExecute(s) ==
    /\ scope[s].pc = "body"
    /\ \E k \in 1..MaxWrites :
          /\ <<s, k>> \notin scope[s].writes
          /\ connTx' = [connTx EXCEPT ![scope[s].isopod.connection].writes =
                                          @ \cup {<<s, k>>}]
          /\ scope' = [scope EXCEPT ![s].writes = @ \cup {<<s, k>>}]
    /\ UNCHANGED <<db, fetched, connOwner, loadVars, cfgVars, call>>

\* leaving the scope, normally or by an exception of the body
ScopeExit(s, body_raised) ==
    /\ scope[s].pc = "body"
    /\ LET c == scope[s].isopod.connection
       IN /\ db' = transaction_exit(db, connTx[c].writes,
                                    exit_receives_exception(body_raised))
          /\ connTx' = [connTx EXCEPT ![c] = NoTx]
          /\ connOwner' = [connOwner EXCEPT ![c] = 0]
    /\ scope' = [scope EXCEPT ![s].pc = IF body_raised THEN "raised" ELSE "exited"]
    /\ UNCHANGED <<fetched, loadVars, cfgVars, call>>

BodyReturns(s) == ScopeExit(s, FALSE)

BodyRaises(s) == ScopeExit(s, TRUE)

\* IsopodPool.fetch("SELECT * FROM example_table") on a free connection
PoolFetch ==
    /\ phase = "returned"
    /\ \E c \in Conns : connOwner[c] = 0
    /\ fetched' = db
    /\ UNCHANGED <<db, connOwner, connTx, scope, loadVars, cfgVars, call>>

----------------------------------------------------------------------------
(* schema.Column: construction and binding to a class *)

\* Column objects that class bodies may hold besides the declared tables' own
ColumnObjs == 1..MaxColumnObjs

\* the classes whose bodies may hold a Column: the TableSchema subclasses and a
\* class that is not one
PlainClass == "PlainClass"
Classes == Tables \cup {PlainClass}

\* issubclass(owner, TableSchema)
issubclass_TableSchema(owner) == owner \in Tables

\* the attribute names of class bodies; the name= argument of Column(), ""
\* being its default
AttrNames == {"id", "field"}
NameArgs == {"", "custom"}

\* owner is attr.ib(init=False): unset until __set_name__ stores it
NoOwner == "unset"
NoColumnObj == [made |-> FALSE, owner |-> NoOwner, name |-> ""]

TypeError(what) == Exc("TypeError", what, <<>>)

\* Column.__set_name__(self, owner, name): the exception it raises, if any, and
\* the Column after it
set_name(self, owner, name) ==
    IF ~issubclass_TableSchema(owner)
    THEN [exc |-> TypeError("Columns can't be used on non-TableSchema classes"),
          self |-> self]
    ELSE [exc |-> NoExc,
          self |-> [self EXCEPT !.owner = owner,
                                !.name = IF self.name = "" THEN name ELSE self.name]]

NoSetName == [count |-> 0, column |-> 0, owner |-> NoOwner, name |-> "", exc |-> NoExc]

\* Column(type, name=name_arg)
NewColumn(c, name_arg) ==
    /\ ~columnObj[c].made
    /\ columnObj' = [columnObj EXCEPT ![c] =
                        [made |-> TRUE, owner |-> NoOwner, name |-> name_arg]]
    /\ UNCHANGED setName
    /\ UNCHANGED <<loadVars, strict, inputs, server, serverTypes, call, txVars>>

\* a class statement whose body holds the Column c under the attribute name:
\* type.__new__ calls c.__set_name__(owner, name)
SetName(c, owner, name) ==
    /\ columnObj[c].made
    /\ setName.count < MaxSetNames
    /\ LET r == set_name(columnObj[c], owner, name)
       IN /\ columnObj' = [columnObj EXCEPT ![c] = r.self]
          /\ setName' = [count |-> setName.count + 1, column |-> c,
                         owner |-> owner, name |-> name, exc |-> r.exc]
    /\ UNCHANGED <<loadVars, strict, inputs, server, serverTypes, call, txVars>>

----------------------------------------------------------------------------
(* Specifications *)

InitLoad ==
    /\ phase = "call"
    /\ task = [t \in Tables |-> "none"]
    /\ results = <<>>
    /\ excs = <<>>
    /\ cancelled = FALSE
    /\ raised = NoExc
    /\ pool = NoPool
    /\ addConverter = [n \in TypeNames |-> 0]
    /\ call = NoCall
    /\ db = {}
    /\ fetched = {}
    /\ connOwner = [c \in Conns |-> 0]
    /\ connTx = [c \in Conns |-> NoTx]
    /\ scope = [s \in Scopes |-> [pc |-> "out", isopod |-> NoIsopod, writes |-> {}]]
    /\ columnObj = [c \in ColumnObjs |-> NoColumnObj]
    /\ setName = NoSetName

\* every call of spawn_isopods_from_pool over every catalogue
Init ==
    /\ strict \in BOOLEAN
    /\ inputs \in InjSeqs(Tables)
    /\ server \in [RelNames -> UNION {Relations(n) : n \in RelNames}]
    /\ \A n \in RelNames : server[n] \in Relations(n)
    /\ serverTypes \in SUBSET TypeNames
    /\ InitLoad

\* both tables declared, over every catalogue
InitBoth ==
    /\ strict \in BOOLEAN
    /\ inputs = <<"ExampleTable", "OtherTable">>
    /\ server \in [RelNames -> UNION {Relations(n) : n \in RelNames}]
    /\ \A n \in RelNames : server[n] \in Relations(n)
    /\ server["other_table"] \in
          {[relkind |-> "absent", cols |-> <<>>], [relkind |-> "r", cols |-> <<"kind">>]}
    /\ serverTypes = TypeNames
    /\ InitLoad

\* before any call of spawn_isopods_from_pool: no Column object made yet
InitBind ==
    /\ strict = TRUE
    /\ inputs = <<"ExampleTable", "OtherTable">>
    /\ server = [n \in RelNames |-> [relkind |-> "absent", cols |-> <<>>]]
    /\ serverTypes = TypeNames
    /\ InitLoad

\* both tables declared, example_table present as declared or absent
InitTx ==
    /\ strict \in BOOLEAN
    /\ inputs = <<"ExampleTable", "OtherTable">>
    /\ server \in [RelNames -> UNION {Relations(n) : n \in RelNames}]
    /\ server["example_table"] \in
          {[relkind |-> "absent", cols |-> <<>>],
           [relkind |-> "r", cols |-> <<"id", "field">>]}
    /\ server["other_table"] = [relkind |-> "r", cols |-> <<"kind">>]
    /\ serverTypes = TypeNames
    /\ InitLoad

NextLoad ==
    \/ StartSoon
    \/ \E t \in Tables : TaskStart(t)
    \/ \E t \in Tables : TaskOidResult(t)
    \/ \E t \in Tables : TaskColsResult(t)
    \/ \E t \in Tables : TaskCancel(t)
    \/ GroupExit
    \/ LoadConverters

NextRow ==
    \/ GetItemCall
    \/ GetCall

NextTx ==
    \/ \E s \in Scopes : Checkout(s)
    \/ \E s \in Scopes : IsopodExecute(s)
    \/ \E s \in Scopes : BodyReturns(s)
    \/ \E s \in Scopes : BodyRaises(s)
    \/ PoolFetch

NextBind ==
    \/ \E c \in ColumnObjs, name_arg \in NameArgs : NewColumn(c, name_arg)
    \/ \E c \in ColumnObjs, owner \in Classes, name \in AttrNames : SetName(c, owner, name)

Next == NextLoad

\* schema loading
Spec == Init /\ [][Next]_vars

\* schema loading, then lookups in fetched rows
SpecRow == InitBoth /\ [][NextLoad \/ NextRow]_vars

\* schema loading, then transaction scopes
SpecTx == InitTx /\ [][NextLoad \/ NextTx]_vars

\* the class statements that run before any schema loading
SpecBind == InitBind /\ [][NextBind]_vars

----------------------------------------------------------------------------
(* Properties of schema loading *)

Ended == phase \in {"raised", "returned"}

\* the relation the server holds under the declared table's name
Rel(t) == server[table_name(t)]

\* the names of the declared columns of a table
Declared(t) == DOMAIN all_columns(t)

\* a group of one or more SchemaLoadFailedError
IsSchemaLoadGroup(e) ==
    /\ e.cls = "ExceptionGroup"
    /\ e.group # <<>>
    /\ \A i \in 1..Len(e.group) : e.group[i].cls = "SchemaLoadFailedError"

\* C1: under strict policy, when some declared table has no ordinary relation
\* of its name on the server, spawn_isopods_from_pool never gets past the task
\* group: it ends by raising a group of SchemaLoadFailedError and no IsopodPool
\* exists.
C1_StrictAbsentTableFails ==
    (strict /\ \E t \in Range(inputs) : Rel(t).relkind # "r") =>
        /\ phase \notin {"mapped", "returned"}
        /\ pool = NoPool
        /\ Ended => phase = "raised" /\ IsSchemaLoadGroup(raised)

C1_Witness ==
    /\ strict
    /\ phase = "raised"
    /\ Rel("ExampleTable").relkind = "v"
    /\ \E i \in 1..Len(raised.group) :
          raised.group[i] = SchemaLoadFailedError("Unknown table", <<"example_table">>)
    /\ pool = NoPool

\* the schema maps every declared column of t to the attnum the server gives
\* the column of that name
MapsAllToServerOrdinals(schema, t) ==
    /\ schema.oid = OidOf(table_name(t))
    /\ DOMAIN schema.column_mapping = {all_columns(t)[n] : n \in Declared(t)}
    /\ \A c \in DOMAIN schema.column_mapping :
          /\ schema.column_mapping[c] \in 1..Len(Rel(t).cols)
          /\ Rel(t).cols[schema.column_mapping[c]] = c.name

\* C2: under strict policy a table's reconciliation succeeds only if the
\* server's column names are exactly the declared ones, and then the schema
\* (in the task's result and in the pool's Schema Map) maps every declared
\* Column to the server ordinal of the same-named column; a table present with
\* other column names makes initialization end in a group of
\* SchemaLoadFailedError, with no pool.
C2_StrictColumnSetsEqual ==
    strict =>
        \A t \in Range(inputs) :
            /\ task[t] = "done" =>
                  /\ Rel(t).relkind = "r"
                  /\ Range(Rel(t).cols) = Declared(t)
                  /\ \E i \in 1..Len(results) : results[i].table = t
            /\ \A i \in 1..Len(results) :
                  results[i].table = t => MapsAllToServerOrdinals(results[i], t)
            /\ phase = "returned" =>
                  /\ t \in DOMAIN pool.schemas
                  /\ MapsAllToServerOrdinals(pool.schemas[t], t)
            /\ (Rel(t).relkind = "r" /\ Range(Rel(t).cols) # Declared(t)) =>
                  /\ task[t] # "done"
                  /\ pool = NoPool
                  /\ Ended => phase = "raised" /\ IsSchemaLoadGroup(raised)

C2_Witness ==
    /\ strict
    /\ phase = "returned"
    /\ Rel("ExampleTable").cols = <<"field", "id">>
    /\ "ExampleTable" \in DOMAIN pool.schemas
    /\ pool.schemas["ExampleTable"].column_mapping[all_columns("ExampleTable")["id"]] = 2
    /\ pool.schemas["ExampleTable"].column_mapping[all_columns("ExampleTable")["field"]] = 1

\* C6: under lenient policy no task and no later step raises, whatever tables,
\* columns and types the server lacks or adds; the call cannot get stuck before
\* it returns; and the pool it returns holds a schema for exactly the declared
\* tables found on the server, mapping the declared columns the server has.
C6_LenientNeverFails ==
    ~strict =>
        /\ phase # "raised"
        /\ raised = NoExc
        /\ excs = <<>>
        /\ ~cancelled
        /\ phase # "returned" => ENABLED Next
        /\ phase = "returned" =>
              /\ pool.exists
              /\ DOMAIN pool.schemas = {t \in Range(inputs) : Rel(t).relkind = "r"}
              /\ \A t \in DOMAIN pool.schemas :
                    {c.name : c \in DOMAIN pool.schemas[t].column_mapping}
                        = Declared(t) \cap Range(Rel(t).cols)

C6_Witness ==
    /\ ~strict
    /\ phase = "returned"
    /\ serverTypes = {}
    /\ inputs = <<"OtherTable", "ExampleTable">>
    /\ Rel("OtherTable").relkind = "absent"
    /\ Rel("ExampleTable").cols = <<"missing", "id">>
    /\ DOMAIN pool.schemas = {"ExampleTable"}

\* the exception backfill_table_data raises for table t under strict policy
FailureOf(t) ==
    IF Rel(t).relkind # "r"
    THEN SchemaLoadFailedError("Unknown table", <<table_name(t)>>)
    ELSE LET undeclared == {i \in 1..Len(Rel(t).cols) : Rel(t).cols[i] \notin Declared(t)}
         IN IF undeclared # {}
            THEN SchemaLoadFailedError("Missing column in schema",
                    <<table_name(t),
                      Rel(t).cols[CHOOSE i \in undeclared : \A j \in undeclared : i <= j]>>)
            ELSE [SchemaLoadFailedError("Unmapped columns", <<>>)
                     EXCEPT !.names = Declared(t) \ Range(Rel(t).cols)]

Failed == {t \in Range(inputs) : task[t] = "failed"}

\* C10 (state part): once a task has failed the scope is cancelled and no
\* schema list, Schema Map or pool is ever produced; the error raised is a
\* group holding the failure of every task that failed, and nothing else.
C10_State ==
    excs # <<>> =>
        /\ strict
        /\ cancelled
        /\ phase \in {"group", "raised"}
        /\ pool = NoPool
        /\ phase = "raised" =>
              /\ raised.cls = "ExceptionGroup"
              /\ Len(raised.group) = Cardinality(Failed)
              /\ \A t \in Failed : FailureOf(t) \in Range(raised.group)
              /\ \A t \in Range(inputs) : task[t] \in Terminal

\* C10 (step part): in a cancelled scope no task goes on to another catalogue
\* query: a task that moves, ends.
C10_Step ==
    cancelled => \A t \in Tables : task'[t] # task[t] => task'[t] \in Terminal

\* C10: under strict policy, a failing task fails the whole operation, the
\* outstanding siblings are cancelled, the raised aggregate holds every task
\* failure, and results already collected are discarded.
C10_StrictFailureIsWhole == [](C10_State) /\ [][C10_Step]_vars

C10_Witness ==
    /\ phase = "raised"
    /\ Len(raised.group) = 2
    /\ raised.group[1] # raised.group[2]

\* a failure with a sibling's result already collected, then discarded
C10_WitnessDiscarded ==
    /\ phase = "raised"
    /\ results # <<>>
    /\ \E t \in Range(inputs) : task[t] = "done"

----------------------------------------------------------------------------
(* Properties of EnhancedRow lookups *)

ByColumn == call.op # "none" /\ ~call.key.is_int
KeyColumn == call.key.column

\* the server's (table OID, attnum) of the column a descriptor names
ServerDesc(c) ==
    [table_oid |-> OidOf(table_name(c.owner)),
     column_index |-> CHOOSE i \in 1..Len(Rel(c.owner).cols) :
                          Rel(c.owner).cols[i] = c.name]

\* the table or the column of the descriptor was skipped by reconciliation
Skipped(c) ==
    \/ Rel(c.owner).relkind # "r"
    \/ c.name \notin Range(Rel(c.owner).cols)

\* positions of the row whose entry carries the descriptor's server identity
Matching(row, c) ==
    {idx \in 1..Len(row.description) : row.description[idx] = ServerDesc(c)}

FirstOf(S) == CHOOSE i \in S : \A j \in S : i <= j

\* C3: a value returned for a Column descriptor is the value of an entry of
\* the row whose (table OID, ordinal) is that of the descriptor's column on
\* the server, wherever the entry stands in the row; no entry with another
\* table OID or another ordinal supplies it.
C3_ReturnsMatchingEntry ==
    (ByColumn /\ call.out.exc = NoExc /\ call.out.value # None) =>
        /\ ~Skipped(KeyColumn)
        /\ \E idx \in Matching(call.row, KeyColumn) :
              call.row.data[idx] = call.out.value
        /\ \A idx \in 1..Len(call.row.data) :
              call.row.data[idx] = call.out.value =>
                  /\ call.row.description[idx].table_oid
                        = OidOf(table_name(KeyColumn.owner))
                  /\ call.row.description[idx].column_index
                        \in 1..Len(Rel(KeyColumn.owner).cols)
                  /\ Rel(KeyColumn.owner).cols[call.row.description[idx].column_index]
                        = KeyColumn.name

\* another table's entry with the same ordinal comes first; the match is second
C3_Witness ==
    /\ call.op = "getitem"
    /\ call.key = ColumnKey(all_columns("OtherTable")["kind"])
    /\ Len(call.row.data) = 2
    /\ call.row.description[1] = [table_oid |-> OidOf("example_table"), column_index |-> 1]
    /\ call.row.description[2] = [table_oid |-> OidOf("other_table"), column_index |-> 1]
    /\ ~call.row.data[1].null
    /\ call.out = Returns(Value(2))

\* the value a Python list index gives, when the index is in range
InRange(row, i) == -Len(row.data) <= i /\ i < Len(row.data)
AtIndex(row, i) == row.data[IF i >= 0 THEN i + 1 ELSE Len(row.data) + i + 1]

\* C4: get(key) returns None when the column's entry holds NULL and when the
\* row has no entry of the column; otherwise it returns what row[key] returns;
\* an int index outside the row raises IndexError from get as from row[index].
C4_GetSuppressesOnlyAbsence ==
    call.op = "get" =>
        /\ call.key.is_int =>
              /\ ~InRange(call.row, call.key.index) => call.out = Raises(IndexError)
              /\ InRange(call.row, call.key.index) =>
                    call.out = Returns(AtIndex(call.row, call.key.index))
              /\ call.out = getitem(pool.schemas, call.row, call.key)
        /\ ~call.key.is_int =>
              /\ call.out.exc = NoExc
              /\ (Skipped(KeyColumn) \/ Matching(call.row, KeyColumn) = {}) =>
                    call.out = Returns(None)
              /\ (~Skipped(KeyColumn) /\ Matching(call.row, KeyColumn) # {}) =>
                    call.out = Returns(call.row.data[FirstOf(Matching(call.row, KeyColumn))])
              /\ getitem(pool.schemas, call.row, call.key).exc = NoExc =>
                    call.out = getitem(pool.schemas, call.row, call.key)

C4_Witness ==
    /\ call.op = "get"
    /\ call.key = IntKey(1)
    /\ Len(call.row.data) = 1
    /\ call.out = Raises(IndexError)

\* C7: after a lenient initialization, a lookup through a descriptor whose
\* table or column was skipped raises KeyError from row[column] and gives None
\* from get(column), whatever entries the row holds.
C7_LenientSkippedNeverReturnsValue ==
    (~strict /\ ByColumn /\ Skipped(KeyColumn)) =>
        /\ call.op = "getitem" =>
              call.out.exc.cls = "KeyError" /\ call.out.value = None
        /\ call.op = "get" => call.out = Returns(None)

\* the table is absent, and the row holds a value under that table's OID
C7_Witness ==
    /\ ~strict
    /\ call.op = "getitem"
    /\ call.key = ColumnKey(all_columns("OtherTable")["kind"])
    /\ Rel("OtherTable").relkind = "absent"
    /\ Len(call.row.data) = 1
    /\ call.row.description[1] = [table_oid |-> OidOf("other_table"), column_index |-> 1]
    /\ ~call.row.data[1].null
    /\ call.out.exc.cls = "KeyError"

\* C8: row[column] for a reconciled column has three outcomes, decided by the
\* first entry carrying the column's (table OID, ordinal): its value when that
\* is not NULL; a KeyError saying the column has a NULL value when it is; a
\* KeyError saying there is no such column in this row when no entry matches.
\* The two KeyErrors differ in their message.
C8_ThreeOutcomes ==
    (call.op = "getitem" /\ ~call.key.is_int /\ ~Skipped(KeyColumn)) =>
        LET hits == Matching(call.row, KeyColumn)
        IN /\ hits = {} =>
                 call.out = Raises(KeyError("No such column in this row",
                                            <<KeyColumn.name>>))
           /\ (hits # {} /\ call.row.data[FirstOf(hits)].null) =>
                 /\ call.out = Raises(KeyError("has a NULL value", <<KeyColumn.name>>))
                 /\ call.out.exc # KeyError("No such column in this row",
                                            <<KeyColumn.name>>)
           /\ (hits # {} /\ ~call.row.data[FirstOf(hits)].null) =>
                 call.out = Returns(call.row.data[FirstOf(hits)])

C8_Witness ==
    /\ call.op = "getitem"
    /\ call.key = ColumnKey(all_columns("ExampleTable")["field"])
    /\ ~Skipped(KeyColumn)
    /\ Matching(call.row, KeyColumn) = {2}
    /\ call.row.data[2].null
    /\ ~call.row.data[1].null
    /\ call.out.exc.what = "has a NULL value"

\* the descriptor's owning table is not in the pool's Schema Map
Unreconciled == ByColumn /\ KeyColumn.owner \notin DOMAIN pool.schemas

\* C9 as claimed: a lookup through a descriptor whose table is not in the
\* Schema Map raises an error that is no KeyError, and get lets it through.
C9_Original ==
    Unreconciled =>
        /\ call.op = "getitem" => call.out.exc.cls \notin {"none", "KeyError"}
        /\ call.op = "get" => call.out.exc # NoExc

\* C9 as amended: such a lookup raises KeyError, the class of the data-absence
\* errors, carrying the table class instead of a message; get catches it and
\* returns None.
C9_UnreconciledIsKeyError ==
    Unreconciled =>
        /\ call.op = "getitem" =>
              call.out = Raises(KeyError("<table>", <<KeyColumn.owner>>))
        /\ call.op = "get" => call.out = Returns(None)

C9_Witness ==
    /\ call.op = "get"
    /\ Unreconciled
    /\ Rel(KeyColumn.owner).relkind = "absent"
    /\ call.row.data # <<>>
    /\ call.out = Returns(None)

----------------------------------------------------------------------------
(* Properties of checkout_isopod *)

\* C5: inside the scope the Isopod holds a connection of its own, in an open
\* transaction, and the pool with its Schema Map; a scope left normally has
\* its writes committed, a scope left by an exception has none of its writes
\* committed or returned by any later fetch; after either exit the connection
\* is back in the pool and no transaction stays open on it.
C5_ScopeClosesTransaction ==
    /\ \A s \in Scopes :
          /\ scope[s].pc = "body" =>
                /\ connOwner[scope[s].isopod.connection] = s
                /\ connTx[scope[s].isopod.connection].open
                /\ connTx[scope[s].isopod.connection].writes = scope[s].writes
                /\ scope[s].isopod.pool = pool
                /\ scope[s].writes \cap db = {}
          /\ scope[s].pc = "exited" =>
                /\ scope[s].writes \subseteq db
                /\ connOwner[scope[s].isopod.connection] # s
          /\ scope[s].pc = "raised" =>
                /\ scope[s].writes \cap db = {}
                /\ scope[s].writes \cap fetched = {}
                /\ connOwner[scope[s].isopod.connection] # s
    /\ \A c \in Conns :
          IF connOwner[c] = 0
          THEN connTx[c] = NoTx
          ELSE scope[connOwner[c]].pc = "body" /\ scope[connOwner[c]].isopod.connection = c

C5_Witness ==
    /\ \E s \in Scopes : scope[s].pc = "raised" /\ scope[s].writes # {}
    /\ \E s \in Scopes : scope[s].pc = "exited" /\ scope[s].writes # {}
    /\ fetched # {}
    /\ \A c \in Conns : connOwner[c] = 0

----------------------------------------------------------------------------
(* Converter registration *)

\* the declared columns of reconciled tables whose type makes a converter for
\* the type name n
ConverterColumns(n) ==
    {c \in Columns : /\ pool # NoPool
                     /\ c.owner \in DOMAIN pool.schemas
                     /\ c.type.with_converter
                     /\ c.type.postgresql_name = n}

\* C11: within one initialization a type name is registered on the driver at
\* most once, whatever number of columns and tables share it: when the
\* initialization has returned, pool.add_converter has been called exactly
\* once for every type name that a column of a reconciled table produced a
\* converter for (the name is in pg_type), and not at all for any other
\* name; before it returns, and when it raises, nothing is registered.
C11_RegisteredOncePerName ==
    \A n \in TypeNames :
        /\ addConverter[n] <= 1
        /\ addConverter[n] = 1 <=>
               /\ phase = "returned"
               /\ ConverterColumns(n) # {}
               /\ n \in serverTypes

\* both tables are reconciled, two columns of two tables share the type name,
\* and the name has been registered once
C11_Witness ==
    /\ phase = "returned"
    /\ DOMAIN pool.schemas = Tables
    /\ \E c, d \in ConverterColumns("example_enum") : c.owner # d.owner
    /\ addConverter["example_enum"] = 1

----------------------------------------------------------------------------
(* map_as_completed: the returned sequence *)

\* the task of t completes in this step
Completes(t) == task[t] # "done" /\ task'[t] = "done"

\* C12: the results are in completion order: the result of a task that
\* completes is placed after the results of all tasks that completed before
\* it, so that in the returned sequence an earlier completion comes before a
\* later one.
C12_CompletionOrder ==
    [][\A t \in Tables :
          Completes(t) =>
              /\ Len(results') = Len(results) + 1
              /\ SubSeq(results', 1, Len(results)) = results]_vars

----------------------------------------------------------------------------
(* map_as_completed: the result collector *)

\* the value backfill_table_data returns for the table t when it does not raise
FnValue(t) ==
    IF pg_class_rows(table_name(t)) = <<>>
    THEN NoSchema
    ELSE backfill_columns(t, pg_class_rows(table_name(t))[1],
                          pg_attribute_rows(table_name(t)), strict).schema

\* the number of entries of the collector equal to v
CountOf(v) == Cardinality({i \in 1..Len(results) : results[i] = v})

\* the inputs whose tasks have completed
Completed == {t \in Range(inputs) : task[t] = "done"}

\* the collector holds, for every value, as many entries as completed tasks
\* returned that value; once map_as_completed has returned without a failure
\* every input's task has completed and there is one entry for each input
C13_State ==
    /\ Len(results) = Cardinality(Completed)
    /\ \A v \in Range(results) \cup {FnValue(t) : t \in Completed} :
          CountOf(v) = Cardinality({t \in Completed : FnValue(t) = v})
    /\ (phase \notin {"call", "group"} /\ excs = <<>>) =>
          /\ Completed = Range(inputs)
          /\ Len(results) = Len(inputs)

\* a step of a task in a group without failure changes that task's position
\* and the collector, and nothing else
C13_Step ==
    (phase = "group" /\ task' # task /\ excs' = <<>>) =>
        /\ \E t \in Range(inputs) : \A u \in Tables \ {t} : task'[u] = task[u]
        /\ UNCHANGED <<phase, excs, cancelled, raised, pool, addConverter,
                       cfgVars, call, txVars>>

\* C13: the collector is safe under concurrent append: in every interleaving
\* of the per-table tasks, when no task fails map_as_completed returns only
\* after all tasks have completed, and its result holds exactly one entry for
\* each input, the value of fn for that input, none lost and none duplicated;
\* the tasks change no shared state other than the collector.
C13_CollectorSafe == [](C13_State) /\ [][C13_Step]_vars

\* map_as_completed has returned the results of two tasks, which differ
C13_Witness ==
    /\ phase = "mapped"
    /\ Len(inputs) = 2
    /\ Len(results) = 2
    /\ results[1] # results[2]
    /\ \A i \in 1..2 : ~results[i].is_none

----------------------------------------------------------------------------
(* Column binding *)

\* this step is a call of Column.__set_name__
SetNameCalled == setName'.count = setName.count + 1

\* the call rebinds a Column that has an owner to another class
RebindsToSecond ==
    /\ columnObj[setName'.column].owner # NoOwner
    /\ setName'.owner # columnObj[setName'.column].owner

\* C14: a Column's owner is set exactly once and is always a TableSchema
\* subclass: binding a Column to a class that is not a TableSchema raises,
\* and binding a Column that has an owner to a second class raises and leaves
\* its owner and name as they were.
C14_OwnerSetOnce ==
    [][SetNameCalled =>
          /\ ~issubclass_TableSchema(setName'.owner) => setName'.exc # NoExc
          /\ columnObj'[setName'.column].owner \in Tables \cup {NoOwner}
          /\ RebindsToSecond =>
                /\ setName'.exc # NoExc
                /\ columnObj'[setName'.column] = columnObj[setName'.column]]_vars

====
